---- MODULE Spec2Model ----
\* Model of src/src/chaiverse/dev/model/reward_model.py:
\* BaseRewardTrainer, RewardRegressionTrainer, RewardClassificationTrainer.
\*
\* Python objects are kept in two heaps so that identity ("the very same fold
\* table", "the caller's mapping") can be told from equality:
\*   tables : sequence of fold tables, a table id is an index into it
\*   dicts  : sequence of fold mappings, a mapping id is an index into it
\* A fold table is [dtype, ndim, labels]; a fold mapping is a sequence of
\* [fold, table] entries in insertion order (Python dict order).
EXTENDS Integers, Sequences, FiniteSets, TLC

VARIABLES
    cls,        \* the class the caller instantiates
    hp,         \* the attributes __init__ stores on self
    obj,        \* "none" | "live" | "TypeError": outcome of instantiation
    model,      \* self.model      (Unset or a handle)
    tokenizer,  \* self.tokenizer  (Unset or a handle)
    trainer,    \* self.trainer    (Unset or a handle)
    tables,     \* heap of fold tables
    dicts,      \* heap of fold mappings
    callerData, \* id of the mapping the caller passed (0: none yet)
    data,       \* the local variable `data` of the running call (0: none)
    pc,         \* position inside fit: "idle" or the step about to run
    steps,      \* steps the current/last fit call has started, in order
    err,        \* exception that ended the last operation ("none": returned)
    lastOp,     \* the last public operation run and what it persisted
    configs,    \* TrainingArguments objects returned by training_config reads
    fits        \* number of fit calls made so far

vars == <<cls, hp, obj, model, tokenizer, trainer, tables, dicts, callerData,
          data, pc, steps, err, lastOp, configs, fits>>

-----------------------------------------------------------------------------
\* Bounds of the model

MaxLen == 3          \* examples in a "train" fold
MaxLabel == 2        \* largest label value offered
MaxNeg == 1          \* labels go down to -MaxNeg
MaxNumLabels == 3    \* num_labels ranges over 1..MaxNumLabels
MaxFits == 1         \* fit calls per trainer instance
MaxConfigReads == 2  \* remembered reads of training_config

LabelVals == (0 - MaxNeg)..MaxLabel

Base == "BaseRewardTrainer"
Regression == "RewardRegressionTrainer"
Classification == "RewardClassificationTrainer"

-----------------------------------------------------------------------------
\* Fold tables and fold mappings

SeqsUpTo(S, n) == UNION {[1..k -> S] : k \in 1..n}

FlatTables(dtypes, n) ==
    {[dtype |-> t, ndim |-> 1, labels |-> l] : t \in dtypes, l \in SeqsUpTo(LabelVals, n)}

\* folds whose "labels" column already holds one row per example
TwoDimTables ==
    {[dtype |-> "int64", ndim |-> 2, labels |-> l] :
        l \in { << <<1, 0>> >>, << <<0, 1>>, <<1, 0>> >>, << <<1, 1>> >> }}

None == 0

\* an attribute that was never assigned (reading it raises AttributeError)
Unset == [unset |-> TRUE]

\* dict.get(key, None)
DictGet(d, key) ==
    IF \E i \in DOMAIN d : d[i].fold = key
    THEN d[CHOOSE i \in DOMAIN d : d[i].fold = key].table
    ELSE None

\* d[key] = value, for a key already present (the order of the keys is kept)
DictSet(d, key, value) ==
    [i \in DOMAIN d |-> IF d[i].fold = key THEN [d[i] EXCEPT !.table = value] ELSE d[i]]

DictKeys(d) == [i \in DOMAIN d |-> d[i].fold]

\* copy.copy(data): a new mapping object with the same entries
CopyAlias(ds, d) == [dicts |-> ds, ref |-> d]

Copy(ds, d) == [dicts |-> Append(ds, ds[d]), ref |-> Len(ds) + 1]

-----------------------------------------------------------------------------
\* numpy helpers used by the classification variant

\* np.array(df['labels']).ndim
NpNdim(df) == df.ndim

\* np.unique(labels)
NpUnique(labels) == {labels[i] : i \in DOMAIN labels}

\* np.eye(n).astype(int): row i (1-based here) has its 1 in column i
NpEye(n) == [i \in 1..n |-> [j \in 1..n |-> IF i = j THEN 1 ELSE 0]]

\* a[l] on an axis of size n: Python indices -n..n-1 are valid, negative ones
\* count from the end; anything else raises IndexError
IndexInBounds(n, l) == l >= 0 - n /\ l < n

NpRow(n, l) == IF l >= 0 THEN l + 1 ELSE n + l + 1

\* utils.format_dataset_dtype(df, 'labels', dtype) on one table: the column
\* is cast, the values and their shape are kept
FormatDatasetDtype(df, dtype) == [df EXCEPT !.dtype = dtype]

\* RewardClassificationTrainer._format_one_hot_labels
FormatOneHotLabelsNoAssert(n, df) ==
    LET labels == df.labels IN
    IF \E i \in DOMAIN labels : ~IndexInBounds(n, labels[i])
    THEN [err |-> "IndexError", df |-> df]
    ELSE [err |-> "none",
          df  |-> [dtype |-> "int64", ndim |-> 2,
                   labels |-> [i \in DOMAIN labels |-> NpEye(n)[NpRow(n, labels[i])]]]]

FormatOneHotLabelsShifted(n, df) ==
    LET labels == df.labels IN
    IF Cardinality(NpUnique(labels)) > n
    THEN [err |-> "AssertionError", df |-> df]
    ELSE IF \E i \in DOMAIN labels : ~IndexInBounds(n, labels[i] + 1)
    THEN [err |-> "IndexError", df |-> df]
    ELSE [err |-> "none",
          df  |-> [dtype |-> "int64", ndim |-> 2,
                   labels |-> [i \in DOMAIN labels |-> NpEye(n)[NpRow(n, labels[i] + 1)]]]]

FormatOneHotLabels(n, df) ==
    LET labels == df.labels IN
    IF Cardinality(NpUnique(labels)) > n
    THEN [err |-> "AssertionError", df |-> df]
    ELSE IF \E i \in DOMAIN labels : ~IndexInBounds(n, labels[i])
    THEN [err |-> "IndexError", df |-> df]
    ELSE [err |-> "none",
          df  |-> [dtype |-> "int64", ndim |-> 2,
                   labels |-> [i \in DOMAIN labels |-> NpEye(n)[NpRow(n, labels[i])]]]]

-----------------------------------------------------------------------------
\* The formatting hook, _format_data_by_training_task.  Each variant maps
\* (heaps, argument) to [tables, dicts, ret, err]: the heaps after the call,
\* the id of the returned mapping (None when the call raised) and the
\* exception raised ("none" when it returned).

\* the loop body of the classification variant, from entry i on; d is the id
\* of the mapping being rewritten
RECURSIVE ClassificationLoopCastAll(_, _, _, _, _)
ClassificationLoopCastAll(n, tabs, ds, d, i) ==
    IF i > Len(ds[d])
    THEN [tables |-> tabs, dicts |-> ds, ret |-> d, err |-> "none"]
    ELSE LET df    == tabs[ds[d][i].table]
             cast  == FormatDatasetDtype(df, "int64")
             tabs1 == Append(tabs, cast)
         IN  IF NpNdim(df) = 1
             THEN LET oh == FormatOneHotLabels(n, cast) IN
                  IF oh.err # "none"
                  THEN [tables |-> tabs1, dicts |-> ds, ret |-> None, err |-> oh.err]
                  ELSE ClassificationLoopCastAll(n, Append(tabs1, oh.df),
                           [ds EXCEPT ![d] = DictSet(ds[d], ds[d][i].fold, Len(tabs1) + 1)],
                           d, i + 1)
             ELSE ClassificationLoopCastAll(n, tabs1,
                      [ds EXCEPT ![d] = DictSet(ds[d], ds[d][i].fold, Len(tabs1))],
                      d, i + 1)

RECURSIVE ClassificationLoop(_, _, _, _, _)
ClassificationLoop(n, tabs, ds, d, i) ==
    IF i > Len(ds[d])
    THEN [tables |-> tabs, dicts |-> ds, ret |-> d, err |-> "none"]
    ELSE LET df == tabs[ds[d][i].table] IN
         IF NpNdim(df) = 1
         THEN LET cast  == FormatDatasetDtype(df, "int64")
                  tabs1 == Append(tabs, cast)
                  oh    == FormatOneHotLabels(n, cast)
              IN  IF oh.err # "none"
                  THEN [tables |-> tabs1, dicts |-> ds, ret |-> None, err |-> oh.err]
                  ELSE ClassificationLoop(n, Append(tabs1, oh.df),
                           [ds EXCEPT ![d] = DictSet(ds[d], ds[d][i].fold, Len(tabs1) + 1)],
                           d, i + 1)
         ELSE ClassificationLoop(n, tabs, ds, d, i + 1)

\* RewardClassificationTrainer._format_data_by_training_task
ClassificationFormat(n, tabs, ds, d) ==
    LET c == Copy(ds, d) IN ClassificationLoop(n, tabs, c.dicts, c.ref, 1)

\* utils.format_dataset_dtype(data, 'labels', dtype) on a fold mapping: a new
\* mapping with the same fold names, each fold a new table with the column cast
RECURSIVE CastFolds(_, _, _, _)
CastFolds(tabs, entries, dtype, i) ==
    IF i > Len(entries)
    THEN [tables |-> tabs, entries |-> entries]
    ELSE CastFolds(Append(tabs, FormatDatasetDtype(tabs[entries[i].table], dtype)),
                   [entries EXCEPT ![i].table = Len(tabs) + 1], dtype, i + 1)

FormatDatasetDtypeDict(tabs, ds, d, dtype) ==
    LET r == CastFolds(tabs, ds[d], dtype, 1) IN
    [tables |-> r.tables, dicts |-> Append(ds, r.entries), ret |-> Len(ds) + 1, err |-> "none"]

\* RewardRegressionTrainer._format_data_by_training_task
RegressionFormatNoCast(tabs, ds, d) ==
    [tables |-> tabs, dicts |-> ds, ret |-> d, err |-> "none"]

RegressionFormat(tabs, ds, d) == FormatDatasetDtypeDict(tabs, ds, d, "float")

\* BaseRewardTrainer._format_data_by_training_task
BaseFormat(tabs, ds, d) ==
    [tables |-> tabs, dicts |-> ds, ret |-> None, err |-> "NotImplementedError"]

\* dispatch of self._format_data_by_training_task on the instance's class
FormatDataByTrainingTask(c, n, tabs, ds, d) ==
    CASE c = Regression     -> RegressionFormat(tabs, ds, d)
      [] c = Classification -> ClassificationFormat(n, tabs, ds, d)
      [] OTHER              -> BaseFormat(tabs, ds, d)

-----------------------------------------------------------------------------
\* The trainer object

\* the keyword defaults of BaseRewardTrainer.__init__; model_name,
\* tokenize_loader and output_dir have none and are given by the caller
Defaults ==
    [model_name |-> "gpt2", tokenize_loader |-> "loader", output_dir |-> "out",
     num_labels |-> 1, learning_rate |-> "2e-5", num_train_epochs |-> 1,
     optim |-> "adamw_hf", bf16 |-> FALSE, logging_strategy |-> "steps",
     logging_steps |-> 50, eval_strategy |-> "no", eval_steps |-> "None",
     save_strategy |-> "no", save_steps |-> "None", per_device_batch_size |-> 8,
     gradient_accumulation_steps |-> 1, train_seed |-> 1, device_map |-> "auto"]

\* _training_task of each class
TrainingTask(c) ==
    CASE c = Regression     -> "regression"
      [] c = Classification -> "single_label_classification"
      [] OTHER              -> "None"

\* the names left abstract in a class: @abstractmethod marks the hook in the
\* base class (metaclass=ABCMeta), both variants override it
AbstractMethodsNone(c) == {}

AbstractMethods(c) == IF c = Base THEN {"_format_data_by_training_task"} ELSE {}

\* BaseRewardTrainer.training_config
TrainingConfigEvalFromAccum(h) ==
    [output_dir |-> h.output_dir,
     learning_rate |-> h.learning_rate,
     num_train_epochs |-> h.num_train_epochs,
     logging_dir |-> h.output_dir \o "/logs",
     logging_strategy |-> h.logging_strategy,
     logging_steps |-> h.logging_steps,
     evaluation_strategy |-> h.eval_strategy,
     eval_steps |-> h.eval_steps,
     save_strategy |-> h.save_strategy,
     save_steps |-> h.save_steps,
     bf16 |-> h.bf16,
     optim |-> h.optim,
     logging_first_step |-> FALSE,
     seed |-> h.train_seed,
     per_device_train_batch_size |-> h.per_device_batch_size,
     per_device_eval_batch_size |-> h.gradient_accumulation_steps,
     gradient_accumulation_steps |-> h.gradient_accumulation_steps]

TrainingConfig(h) ==
    [output_dir |-> h.output_dir,
     learning_rate |-> h.learning_rate,
     num_train_epochs |-> h.num_train_epochs,
     logging_dir |-> h.output_dir \o "/logs",
     logging_strategy |-> h.logging_strategy,
     logging_steps |-> h.logging_steps,
     evaluation_strategy |-> h.eval_strategy,
     eval_steps |-> h.eval_steps,
     save_strategy |-> h.save_strategy,
     save_steps |-> h.save_steps,
     bf16 |-> h.bf16,
     optim |-> h.optim,
     logging_first_step |-> FALSE,
     seed |-> h.train_seed,
     per_device_train_batch_size |-> h.per_device_batch_size,
     per_device_eval_batch_size |-> h.per_device_batch_size,
     gradient_accumulation_steps |-> h.gradient_accumulation_steps]

\* AutoModelForSequenceClassification.from_pretrained(...) as called by
\* instantiate_reward_model
NewModel(c, h) ==
    [model_name |-> h.model_name, num_labels |-> h.num_labels,
     problem_type |-> TrainingTask(c), device_map |-> h.device_map, trained |-> FALSE]

\* self._trainer_cls(...) as called by instantiate_reward_trainer on mapping d
NewTrainer(m, h, tok, d) ==
    [model |-> m, args |-> TrainingConfig(h), tokenizer |-> tok,
     train_dataset |-> DictGet(d, "train"), eval_dataset |-> DictGet(d, "validation")]

\* the order in which fit runs its steps: the step after s
FitNextModelFirst(s) ==
    CASE s = "tokenizer" -> "model"
      [] s = "model"     -> "format"
      [] s = "format"    -> "trainer"
      [] s = "trainer"   -> "train"
      [] OTHER           -> "idle"

FitNext(s) ==
    CASE s = "tokenizer" -> "format"
      [] s = "format"    -> "model"
      [] s = "model"     -> "trainer"
      [] s = "trainer"   -> "train"
      [] OTHER           -> "idle"

NoOp == [op |-> "none", effects |-> {}]

-----------------------------------------------------------------------------
\* Inputs: the fold mappings a caller hands over.  A mapping always has a
\* "train" fold; a "validation" fold may come before or after it.

MappingsOf(trainTables, otherTables) ==
    {<<[fold |-> "train", df |-> t]>> : t \in trainTables}
    \cup {<<[fold |-> "train", df |-> t], [fold |-> "validation", df |-> v]>> :
            t \in trainTables, v \in otherTables}
    \cup {<<[fold |-> "validation", df |-> v], [fold |-> "train", df |-> t]>> :
            t \in trainTables, v \in otherTables}

\* the second fold of a mapping holds one example (or is two-dimensional):
\* the hook treats the folds one by one, so the long fold is the "train" one
OtherTables == FlatTables({"float"}, 1) \cup TwoDimTables

FormatInputs ==
    MappingsOf(FlatTables({"int64"}, MaxLen) \cup TwoDimTables, OtherTables)

\* The mappings handed to fit.  What fit does with a mapping depends on it
\* only through the outcome of the formatting hook (FormatInputs covers the
\* hook itself) and through which folds exist, so a few mappings stand for
\* the outcomes: formatted, left alone, assertion, index error, either fold
\* order, with and without a "validation" fold.
Flat(l) == [dtype |-> "int64", ndim |-> 1, labels |-> l]

OneHot2x2 == [dtype |-> "int64", ndim |-> 2, labels |-> << <<0, 1>>, <<1, 0>> >>]

FitInputs ==
    { <<[fold |-> "train", df |-> Flat(<<0, 1>>)]>>,
      <<[fold |-> "train", df |-> Flat(<<0, 1, 2>>)]>>,
      <<[fold |-> "train", df |-> Flat(<<1, 0>>)], [fold |-> "validation", df |-> Flat(<<1>>)]>>,
      <<[fold |-> "validation", df |-> Flat(<<0>>)], [fold |-> "train", df |-> Flat(<<0, 1>>)]>>,
      <<[fold |-> "train", df |-> Flat(<<0, 1>>)], [fold |-> "validation", df |-> Flat(<<0, 1, 2>>)]>>,
      <<[fold |-> "train", df |-> Flat(<<2>>)], [fold |-> "validation", df |-> Flat(<<0, 1, 2>>)]>>,
      <<[fold |-> "train", df |-> OneHot2x2], [fold |-> "validation", df |-> Flat(<<1>>)]>>,
      <<[fold |-> "train", df |-> Flat(<<0, 1>>)], [fold |-> "validation", df |-> OneHot2x2]>> }

\* the caller's mapping m placed on the heaps: its tables, then the mapping
AllocTables(tabs, m) == tabs \o [i \in DOMAIN m |-> m[i].df]

AllocDict(tabs, ds, m) ==
    Append(ds, [i \in DOMAIN m |-> [fold |-> m[i].fold, table |-> Len(tabs) + i]])

-----------------------------------------------------------------------------
\* Operations of one trainer instance

\* BaseRewardTrainer(...) / a variant's constructor: ABCMeta refuses to
\* instantiate a class that still has abstract methods
Construct ==
    /\ obj = "none"
    /\ obj' = IF AbstractMethods(cls) = {} THEN "live" ELSE "TypeError"
    /\ err' = IF AbstractMethods(cls) = {} THEN "none" ELSE "TypeError"
    /\ lastOp' = [op |-> "__init__", effects |-> {}]
    /\ UNCHANGED <<cls, hp, model, tokenizer, trainer, tables, dicts, callerData,
                   data, pc, steps, configs, fits>>

Idle == obj = "live" /\ pc = "idle"

\* fit(data), line 56: the call starts and the tokenizer is loaded
FitLoadTokenizer(m, ok) ==
    /\ Idle
    /\ fits < MaxFits
    /\ fits' = fits + 1
    /\ tables' = AllocTables(tables, m)
    /\ dicts' = AllocDict(tables, dicts, m)
    /\ callerData' = Len(dicts) + 1
    /\ data' = Len(dicts) + 1
    /\ steps' = <<"tokenizer">>
    /\ lastOp' = [op |-> "fit", effects |-> {}]
    /\ IF ok
       THEN /\ tokenizer' = [loader |-> hp.tokenize_loader]
            /\ err' = "none"
            /\ pc' = FitNext("tokenizer")
       ELSE /\ tokenizer' = tokenizer
            /\ err' = "LoadError"
            /\ pc' = "idle"
    /\ UNCHANGED <<cls, hp, obj, model, trainer, configs>>

\* fit, line 57: data = self._format_data_by_training_task(data)
FitFormat ==
    /\ obj = "live" /\ pc = "format"
    /\ LET r == FormatDataByTrainingTask(cls, hp.num_labels, tables, dicts, data) IN
       /\ tables' = r.tables
       /\ dicts' = r.dicts
       /\ steps' = Append(steps, "format")
       /\ err' = r.err
       /\ IF r.err = "none"
          THEN data' = r.ret /\ pc' = FitNext("format")
          ELSE data' = data /\ pc' = "idle"
    /\ UNCHANGED <<cls, hp, obj, model, tokenizer, trainer, callerData, lastOp,
                   configs, fits>>

\* instantiate_reward_model, lines 70-76
DoInstantiateModel(ok) ==
    /\ model' = IF ok THEN NewModel(cls, hp) ELSE model
    /\ err' = IF ok THEN "none" ELSE "ModelLoadError"

\* instantiate_reward_trainer(data), lines 78-86, on mapping id d
TrainerFailureNoTokenizerRead(d, ok) ==
    CASE model = Unset                    -> "AttributeError"
      [] DictGet(dicts[d], "train") = None -> "KeyError"
      [] ~ok                              -> "TrainerError"
      [] OTHER                            -> "none"

TrainerFailure(d, ok) ==
    CASE model = Unset                  -> "AttributeError"
      [] tokenizer = Unset              -> "AttributeError"
      [] DictGet(dicts[d], "train") = None -> "KeyError"
      [] ~ok                              -> "TrainerError"
      [] OTHER                            -> "none"

DoInstantiateTrainer(d, ok) ==
    /\ err' = TrainerFailure(d, ok)
    /\ trainer' = IF TrainerFailure(d, ok) = "none"
                  THEN NewTrainer(model, hp, tokenizer, dicts[d])
                  ELSE trainer

\* fit, line 58
FitInstantiateModel(ok) ==
    /\ obj = "live" /\ pc = "model"
    /\ DoInstantiateModel(ok)
    /\ steps' = Append(steps, "model")
    /\ pc' = IF ok THEN FitNext("model") ELSE "idle"
    /\ UNCHANGED <<cls, hp, obj, tokenizer, trainer, tables, dicts, callerData,
                   data, lastOp, configs, fits>>

\* fit, line 59
FitInstantiateTrainer(ok) ==
    /\ obj = "live" /\ pc = "trainer"
    /\ DoInstantiateTrainer(data, ok)
    /\ steps' = Append(steps, "trainer")
    /\ pc' = IF TrainerFailure(data, ok) = "none" THEN FitNext("trainer") ELSE "idle"
    /\ UNCHANGED <<cls, hp, obj, model, tokenizer, tables, dicts, callerData,
                   data, lastOp, configs, fits>>

\* fit, line 60: self.trainer.train() trains the model the engine holds,
\* which is the object self.model refers to
FitTrain(ok) ==
    /\ obj = "live" /\ pc = "train"
    /\ steps' = Append(steps, "train")
    /\ pc' = "idle"
    /\ IF ok
       THEN /\ err' = "none"
            /\ trainer' = [trainer EXCEPT !.model.trained = TRUE]
            /\ model' = IF model = trainer.model
                        THEN [model EXCEPT !.trained = TRUE] ELSE model
       ELSE /\ err' = "TrainError"
            /\ UNCHANGED <<trainer, model>>
    /\ UNCHANGED <<cls, hp, obj, tokenizer, tables, dicts, callerData, data,
                   lastOp, configs, fits>>

\* instantiate_reward_model() called by the user
InstantiateRewardModel(ok) ==
    /\ Idle
    /\ DoInstantiateModel(ok)
    /\ lastOp' = [op |-> "instantiate_reward_model", effects |-> {}]
    /\ UNCHANGED <<cls, hp, obj, tokenizer, trainer, tables, dicts, callerData,
                   data, pc, steps, configs, fits>>

\* instantiate_reward_trainer(data) called by the user with a mapping it holds
InstantiateRewardTrainer(d, ok) ==
    /\ Idle
    /\ d \in DOMAIN dicts
    /\ DoInstantiateTrainer(d, ok)
    /\ lastOp' = [op |-> "instantiate_reward_trainer", effects |-> {}]
    /\ UNCHANGED <<cls, hp, obj, model, tokenizer, tables, dicts, callerData,
                   data, pc, steps, configs, fits>>

\* save(path), lines 62-64; path "None" stands for the default None and ""
\* for an empty string, both falsy in `path or self.output_dir`
SavePath(path, h) == IF path \in {"None", ""} THEN h.output_dir ELSE path

Save(path, ok) ==
    /\ Idle
    /\ err' = IF model = Unset THEN "AttributeError"
              ELSE IF ok THEN "none" ELSE "SaveError"
    /\ lastOp' = [op |-> "save",
                  effects |-> IF model # Unset /\ ok
                              THEN {[what |-> "model", to |-> SavePath(path, hp)]}
                              ELSE {}]
    /\ UNCHANGED <<cls, hp, obj, model, tokenizer, trainer, tables, dicts,
                   callerData, data, pc, steps, configs, fits>>

\* push_to_hub(hf_path, private), lines 66-68: the model is published first,
\* then the tokenizer; okModel / okTok tell whether each upload succeeds
PushEffects(hf_path, okModel, okTok) ==
    (IF model # Unset /\ okModel THEN {[what |-> "model", to |-> hf_path]} ELSE {})
    \cup (IF model # Unset /\ okModel /\ tokenizer # Unset /\ okTok
          THEN {[what |-> "tokenizer", to |-> hf_path]} ELSE {})

PushError(okModel, okTok) ==
    CASE model = Unset     -> "AttributeError"
      [] ~okModel            -> "HubError"
      [] tokenizer = Unset -> "AttributeError"
      [] ~okTok              -> "HubError"
      [] OTHER               -> "none"

PushToHub(hf_path, okModel, okTok) ==
    /\ Idle
    /\ err' = PushError(okModel, okTok)
    /\ lastOp' = [op |-> "push_to_hub", effects |-> PushEffects(hf_path, okModel, okTok)]
    /\ UNCHANGED <<cls, hp, obj, model, tokenizer, trainer, tables, dicts,
                   callerData, data, pc, steps, configs, fits>>

\* a read of the training_config property by the user
AccessTrainingConfig ==
    /\ Idle
    /\ Len(configs) < MaxConfigReads
    /\ configs' = Append(configs, TrainingConfig(hp))
    /\ UNCHANGED <<cls, hp, obj, model, tokenizer, trainer, tables, dicts,
                   callerData, data, pc, steps, err, lastOp, fits>>

-----------------------------------------------------------------------------
\* Spec: the life of one trainer instance

InitCommon ==
    /\ model = Unset /\ tokenizer = Unset /\ trainer = Unset
    /\ tables = <<>> /\ dicts = <<>>
    /\ callerData = None /\ data = None
    /\ pc = "idle" /\ steps = <<>> /\ err = "none"
    /\ lastOp = NoOp /\ configs = <<>> /\ fits = 0

Init ==
    /\ cls \in {Base, Regression, Classification}
    /\ hp \in {[Defaults EXCEPT !.num_labels = n] : n \in 1..MaxNumLabels}
    /\ obj = "none"
    /\ InitCommon

Next ==
    \/ Construct
    \/ \E m \in FitInputs, ok \in BOOLEAN : FitLoadTokenizer(m, ok)
    \/ FitFormat
    \/ \E ok \in BOOLEAN : FitInstantiateModel(ok)
    \/ \E ok \in BOOLEAN : FitInstantiateTrainer(ok)
    \/ \E ok \in BOOLEAN : FitTrain(ok)
    \/ \E ok \in BOOLEAN : InstantiateRewardModel(ok)
    \/ \E d \in DOMAIN dicts, ok \in BOOLEAN : InstantiateRewardTrainer(d, ok)
    \/ \E path \in {"None", "ckpt"}, ok \in BOOLEAN : Save(path, ok)
    \/ \E okModel \in BOOLEAN, okTok \in BOOLEAN : PushToHub("org/reward", okModel, okTok)

Spec == Init /\ [][Next]_vars

-----------------------------------------------------------------------------
\* SpecFormat: the formatting hook called on its own, on every mapping of
\* FormatInputs, by a concrete variant

FormatCall ==
    /\ obj = "live" /\ pc = "hook"
    /\ LET r == FormatDataByTrainingTask(cls, hp.num_labels, tables, dicts, data) IN
       /\ tables' = r.tables
       /\ dicts' = r.dicts
       /\ data' = r.ret
       /\ err' = r.err
    /\ pc' = "returned"
    /\ lastOp' = [op |-> "_format_data_by_training_task", effects |-> {}]
    /\ UNCHANGED <<cls, hp, obj, model, tokenizer, trainer, callerData, steps,
                   configs, fits>>

InitFormat ==
    /\ cls \in {Regression, Classification}
    /\ hp \in {[Defaults EXCEPT !.num_labels = n] : n \in 1..MaxNumLabels}
    /\ obj = "live"
    /\ model = Unset /\ tokenizer = Unset /\ trainer = Unset
    /\ \E m \in FormatInputs :
          /\ tables = AllocTables(<<>>, m)
          /\ dicts = AllocDict(<<>>, <<>>, m)
    /\ callerData = 1 /\ data = 1
    /\ pc = "hook" /\ steps = <<>> /\ err = "none"
    /\ lastOp = NoOp /\ configs = <<>> /\ fits = 0

NextFormat == FormatCall

SpecFormat == InitFormat /\ [][NextFormat]_vars

-----------------------------------------------------------------------------
\* SpecConfig: reads of training_config on trainers built with various
\* constructor arguments, between calls that set the model handle

ConfigArgs ==
    {[Defaults EXCEPT !.output_dir = o, !.per_device_batch_size = b,
                      !.gradient_accumulation_steps = g, !.num_labels = n,
                      !.bf16 = f] :
        o \in {"out", "runs/rm"}, b \in {8, 16}, g \in {1, 4},
        n \in 1..MaxNumLabels, f \in BOOLEAN}

InitConfig ==
    /\ cls \in {Regression, Classification}
    /\ hp \in ConfigArgs
    /\ obj = "live"
    /\ InitCommon

NextConfig ==
    \/ AccessTrainingConfig
    \/ \E ok \in BOOLEAN : InstantiateRewardModel(ok)

SpecConfig == InitConfig /\ [][NextConfig]_vars

-----------------------------------------------------------------------------
\* Vocabulary of the properties

\* the hook was called on its own and the call is over
HookOver == pc = "returned"

\* the mapping the caller passed and the tables it held when it passed them:
\* the caller's i-th fold was allocated as table i
CallerFolds == DOMAIN dicts[callerData]

\* one-hot row of length n for class l, counted from 0
OneHotRow(n, l) == [k \in 1..n |-> IF k - 1 = l THEN 1 ELSE 0]

IsFlat(t) == t.ndim = 1

InRange(n, t) == \A j \in DOMAIN t.labels : t.labels[j] \in 0..(n - 1)

Distinct(t) == Cardinality({t.labels[j] : j \in DOMAIN t.labels})

\* positions of 1 in a row
Ones(row) == {k \in DOMAIN row : row[k] = 1}

-----------------------------------------------------------------------------
\* Properties of the formatting hook (SpecFormat)

\* C1: on a classification trainer with num_labels = n, every flat fold whose
\* labels all lie in 0..n-1 comes back with one row per example, each row of
\* length n with 1 at the index of the original label and 0 elsewhere; and
\* the call returns when every flat fold is of that kind.
C1_OneHotOfLabel ==
    (HookOver /\ cls = Classification) =>
        LET n == hp.num_labels IN
        /\ (\A i \in CallerFolds : IsFlat(tables[i]) => InRange(n, tables[i]))
               => err = "none"
        /\ err = "none" =>
               \A i \in CallerFolds :
                   (IsFlat(tables[i]) /\ InRange(n, tables[i])) =>
                       LET res == tables[dicts[data][i].table] IN
                       /\ dicts[data][i].fold = dicts[callerData][i].fold
                       /\ res.ndim = 2
                       /\ DOMAIN res.labels = DOMAIN tables[i].labels
                       /\ \A j \in DOMAIN res.labels :
                              res.labels[j] = OneHotRow(n, tables[i].labels[j])

\* C1 witness: num_labels = 3 and labels [0,2,1] gave [[1,0,0],[0,0,1],[0,1,0]]
C1_Witness ==
    /\ HookOver /\ cls = Classification /\ err = "none" /\ hp.num_labels = 3
    /\ \E i \in CallerFolds :
          /\ tables[i].labels = <<0, 2, 1>>
          /\ tables[dicts[data][i].table].labels
                 = << <<1, 0, 0>>, <<0, 0, 1>>, <<0, 1, 0>> >>

\* C9 (as claimed): whenever classification formatting returns, every flat
\* fold of integer labels, negative ones included, has in each output row
\* exactly one 1, at the index equal to the original label value.
C9_GuardSufficient ==
    (HookOver /\ cls = Classification /\ err = "none") =>
        \A i \in CallerFolds :
            IsFlat(tables[i]) =>
                LET res == tables[dicts[data][i].table] IN
                \A j \in DOMAIN res.labels :
                    /\ Len(res.labels[j]) = hp.num_labels
                    /\ Ones(res.labels[j]) = {tables[i].labels[j] + 1}

\* C4: a classification call that returns leaves every fold whose labels are
\* two-dimensional as it was: same fold name, the very same table object with
\* the same content, whatever the other folds hold.
C4_TwoDimUntouched ==
    [][(pc = "hook" /\ pc' = "returned" /\ cls = Classification /\ err' = "none") =>
          \A i \in CallerFolds :
              ~IsFlat(tables[i]) =>
                  /\ dicts'[data'][i] = dicts[callerData][i]
                  /\ tables'[dicts'[data'][i].table] = tables[i]]_vars

\* C4 witness: a returned call whose mapping had a two-dimensional fold next
\* to a flat fold that was converted
C4_Witness ==
    /\ HookOver /\ cls = Classification /\ err = "none"
    /\ \E i \in CallerFolds : ~IsFlat(tables[i]) /\ dicts[data][i].table = i
    /\ \E i \in CallerFolds : IsFlat(tables[i]) /\ dicts[data][i].table # i

\* C5: a classification call, whether it returns or raises part-way, leaves
\* the caller's mapping object with the same entries and every table that
\* existed before the call with the same content; replaced tables are
\* referred to by the returned mapping only.
C5_CallerMappingKept ==
    [][(pc = "hook" /\ pc' = "returned" /\ cls = Classification) =>
          /\ dicts'[callerData] = dicts[callerData]
          /\ \A t \in DOMAIN tables : tables'[t] = tables[t]
          /\ err' = "none" => data' # callerData]_vars

\* C5 witness: the first fold was converted, the second one tripped the
\* assertion, and the caller's mapping still names its own tables
C5_Witness ==
    /\ HookOver /\ cls = Classification /\ err = "AssertionError"
    /\ Len(dicts[callerData]) = 2
    /\ Len(tables) = 5
    /\ tables[4].ndim = 2
    /\ \A i \in CallerFolds : dicts[callerData][i].table = i

\* C7: regression formatting returns, for every mapping, a mapping with the
\* same fold names in which every fold's labels are floating-point, of the
\* same shape and length, each value equal to the original one.
C7_RegressionCastsOnly ==
    (HookOver /\ cls = Regression) =>
        /\ err = "none"
        /\ DictKeys(dicts[data]) = DictKeys(dicts[callerData])
        /\ \A i \in CallerFolds :
               LET res == tables[dicts[data][i].table] IN
               /\ res.dtype = "float"
               /\ res.ndim = tables[i].ndim
               /\ res.labels = tables[i].labels

\* C7 witness: a two-fold mapping with integer and two-dimensional labels
\* went through regression formatting
C7_Witness ==
    /\ HookOver /\ cls = Regression /\ err = "none"
    /\ \E i \in CallerFolds : tables[i].dtype = "int64" /\ Len(tables[i].labels) = 3
    /\ \E i \in CallerFolds : tables[i].ndim = 2

-----------------------------------------------------------------------------
\* Properties of the trainer's life (Spec)

FitOrder == <<"tokenizer", "format", "model", "trainer", "train">>

\* the last operation was fit, and it is over
FitOver == lastOp.op = "fit" /\ pc = "idle"

\* folds of the mapping handed to the current/last fit call
FitFolds == IF callerData = None THEN {} ELSE DOMAIN dicts[callerData]

FitFold(i) == tables[dicts[callerData][i].table]

\* fold i is flat and has more distinct label values than num_labels
OverCardinal(i) == IsFlat(FitFold(i)) /\ Distinct(FitFold(i)) > hp.num_labels

\* fold i is flat, passes the cardinality assertion and holds a label that
\* is no valid index into an axis of size num_labels
IndexFails(i) ==
    /\ IsFlat(FitFold(i))
    /\ Distinct(FitFold(i)) <= hp.num_labels
    /\ \E j \in DOMAIN FitFold(i).labels :
          FitFold(i).labels[j] < 0 - hp.num_labels \/ FitFold(i).labels[j] >= hp.num_labels

\* nothing of fit after the formatting step has run in this call
NothingAfterFormat ==
    /\ pc \in {"idle", "format"}
    /\ Len(steps) <= 2
    /\ \A k \in DOMAIN steps : steps[k] \in {"tokenizer", "format"}
    /\ data = callerData

\* C2 (as claimed): fit on a classification trainer, given a flat fold with
\* more distinct label values than num_labels, fails with the fatal
\* assertion once formatting runs, before anything later runs.
C2_AlwaysAssertion ==
    (cls = Classification /\ (\E i \in FitFolds : OverCardinal(i))) =>
        /\ NothingAfterFormat
        /\ (FitOver /\ Len(steps) = 2) => err = "AssertionError"

\* C2 (amended): such a fit call fails before training starts: the step
\* after formatting is never reached, no formatted mapping is produced, no
\* model or engine is built, train is not run and the formatting step runs
\* once; the failure of the formatting step is the fatal assertion, unless a
\* fold before the first over-cardinal one holds an out-of-range label,
\* whose IndexError comes first.
C2_FailsBeforeTraining ==
    (cls = Classification /\ (\E i \in FitFolds : OverCardinal(i))) =>
        /\ NothingAfterFormat
        /\ (FitOver /\ Len(steps) = 2) =>
               LET first == CHOOSE i \in FitFolds :
                                /\ OverCardinal(i)
                                /\ \A k \in FitFolds : OverCardinal(k) => i <= k
               IN  err = IF \E k \in FitFolds : k < first /\ IndexFails(k)
                         THEN "IndexError" ELSE "AssertionError"

\* C2 witness: num_labels = 2 and labels [0,1,2] raised the assertion
C2_Witness ==
    /\ cls = Classification /\ hp.num_labels = 2 /\ FitOver
    /\ steps = <<"tokenizer", "format">>
    /\ err = "AssertionError"
    /\ \E i \in FitFolds : FitFold(i).labels = <<0, 1, 2>>
    /\ model = Unset /\ trainer = Unset

\* C3 (as claimed): the base type can be instantiated, and fit on the
\* instance fails with NotImplementedError raised by the formatting hook.
C3_FitRaisesNotImplemented ==
    (cls = Base /\ obj # "none") =>
        /\ obj = "live"
        /\ (FitOver /\ Len(steps) = 2) => err = "NotImplementedError"

\* C3 (amended): the base type cannot be used directly: instantiating it is
\* refused with a TypeError because its formatting hook is abstract, so no
\* instance exists, fit never starts on it, and no tokenizer, model or
\* engine is ever built.
C3_BaseCannotBeInstantiated ==
    cls = Base =>
        /\ obj \in {"none", "TypeError"}
        /\ obj = "TypeError" => err = "TypeError"
        /\ steps = <<>> /\ fits = 0
        /\ model = Unset /\ tokenizer = Unset /\ trainer = Unset

\* C3 witness: instantiation of the base type was attempted and refused
C3_Witness == cls = Base /\ obj = "TypeError" /\ lastOp.op = "__init__"

\* C8: in every fit call on a concrete variant the steps started so far are
\* a prefix of tokenizer load, label formatting, model build, engine build,
\* training run; the call is at the step after the last one started only
\* while nothing has failed, a failure ends the call, and the engine about
\* to train or just trained is bound to this instance's model and tokenizer,
\* to the "train" fold of the formatted mapping and to its "validation" fold
\* when it has one, to no evaluation dataset otherwise.
C8_FitStepsInOrder ==
    /\ steps = SubSeq(FitOrder, 1, Len(steps))
    /\ pc # "idle" =>
           /\ lastOp.op = "fit" /\ err = "none"
           /\ Len(steps) < Len(FitOrder) /\ pc = FitOrder[Len(steps) + 1]
    /\ (lastOp.op = "fit" /\ err # "none") => pc = "idle"
    /\ (FitOver /\ err = "none") => steps = FitOrder
    /\ (pc = "train" \/ (FitOver /\ steps = FitOrder)) =>
           /\ data # callerData
           /\ trainer.train_dataset = DictGet(dicts[data], "train")
           /\ trainer.eval_dataset = DictGet(dicts[data], "validation")
           /\ (DictGet(dicts[callerData], "validation") = None) = (trainer.eval_dataset = None)
           /\ trainer.tokenizer = tokenizer
           /\ trainer.model = model
           /\ cls = Regression => tables[trainer.train_dataset].dtype = "float"
           /\ cls = Classification => tables[trainer.train_dataset].ndim = 2

\* C8 witness: a fit call ran all five steps on a mapping whose flat "train"
\* fold was replaced and which has a "validation" fold
C8_Witness ==
    /\ FitOver /\ steps = FitOrder /\ err = "none"
    /\ model.trained
    /\ trainer.eval_dataset # None
    /\ trainer.train_dataset # DictGet(dicts[callerData], "train")

ModelArtifact == [what |-> "model", to |-> "org/reward"]

HandlesConsistent ==
    /\ trainer # Unset => (model # Unset /\ tokenizer # Unset)
    /\ tokenizer # Unset => (fits > 0 /\ steps # <<>>)

HandlesKeptByPersistence ==
    [][lastOp'.op \in {"save", "push_to_hub"} =>
          UNCHANGED <<model, tokenizer, trainer>>]_vars

\* C10 (as claimed): the handles are populated consistently, and save and
\* push_to_hub perform no persistence and no publish at all when a handle
\* they need is not set.
C10_NothingPublishedWithoutHandles ==
    /\ HandlesConsistent
    /\ (lastOp.op = "save" /\ model = Unset) => lastOp.effects = {}
    /\ (lastOp.op = "push_to_hub" /\ (model = Unset \/ tokenizer = Unset)) =>
           lastOp.effects = {}

\* C10 (amended): the engine handle is set only where the model and the
\* tokenizer handles are set; the tokenizer handle is set only by fit; save
\* and push_to_hub never change a handle; save fails and writes nothing when
\* the model handle is not set; push_to_hub fails and publishes nothing when
\* the model handle is not set, and when only the tokenizer handle is
\* missing it fails after publishing at most the model, never the tokenizer.
C10_HandlesAndPersistence ==
    /\ []HandlesConsistent
    /\ HandlesKeptByPersistence
    /\ []((lastOp.op = "save" /\ model = Unset) =>
              (err = "AttributeError" /\ lastOp.effects = {}))
    /\ []((lastOp.op = "push_to_hub" /\ model = Unset) =>
              (err = "AttributeError" /\ lastOp.effects = {}))
    /\ []((lastOp.op = "push_to_hub" /\ model # Unset /\ tokenizer = Unset) =>
              (err # "none" /\ lastOp.effects \subseteq {ModelArtifact}))

\* C10 witness: push_to_hub on a trainer whose model was built directly and
\* whose tokenizer was never loaded published the model and then failed
C10_Witness ==
    /\ lastOp.op = "push_to_hub" /\ model # Unset /\ tokenizer = Unset
    /\ err = "AttributeError"
    /\ lastOp.effects = {ModelArtifact}

-----------------------------------------------------------------------------
\* Properties of training_config (SpecConfig)

\* what a configuration read from training_config must hold
C6_ConfigFields ==
    \A i \in DOMAIN configs :
        /\ configs[i].output_dir = hp.output_dir
        /\ configs[i].logging_dir = hp.output_dir \o "/logs"
        /\ configs[i].learning_rate = hp.learning_rate
        /\ configs[i].num_train_epochs = hp.num_train_epochs
        /\ configs[i].logging_strategy = hp.logging_strategy
        /\ configs[i].logging_steps = hp.logging_steps
        /\ configs[i].evaluation_strategy = hp.eval_strategy
        /\ configs[i].eval_steps = hp.eval_steps
        /\ configs[i].save_strategy = hp.save_strategy
        /\ configs[i].save_steps = hp.save_steps
        /\ configs[i].bf16 = hp.bf16
        /\ configs[i].optim = hp.optim
        /\ configs[i].logging_first_step = FALSE
        /\ configs[i].seed = hp.train_seed
        /\ configs[i].per_device_train_batch_size = hp.per_device_batch_size
        /\ configs[i].per_device_eval_batch_size = hp.per_device_batch_size
        /\ configs[i].gradient_accumulation_steps = hp.gradient_accumulation_steps
        /\ configs[i] = configs[1]

\* C6: every configuration read from training_config carries the instance's
\* current hyperparameters (train and eval batch size both
\* per_device_batch_size, logging_dir = output_dir followed by "/logs"), all
\* reads on one instance agree field for field, and a read changes no
\* attribute of the instance.
C6_ConfigPure ==
    /\ []C6_ConfigFields
    /\ [][configs' # configs =>
             UNCHANGED <<cls, hp, obj, model, tokenizer, trainer>>]_vars

\* C6 witness: two reads, around a model build, on a trainer whose batch
\* size and accumulation steps differ
C6_Witness ==
    /\ Len(configs) = 2
    /\ model # Unset
    /\ hp.per_device_batch_size = 16 /\ hp.gradient_accumulation_steps = 4
    /\ hp.output_dir = "runs/rm" /\ configs[2].logging_dir = "runs/rm/logs"

====
